---- MODULE Spec2Model ----
(***************************************************************************)
(* Google Cloud DNS MCP server: the authenticated API client               *)
(* (src/src/lib/client.ts), the record tools that drive it                 *)
(* (src/src/tools/domains.ts) and the server start-up                      *)
(* (src/unnamed/part_000).                                                 *)
(*                                                                         *)
(* Each tool invocation is one asynchronous flow.  JavaScript runs the     *)
(* code between two awaits without interruption, so one action of the      *)
(* model is one such run: from the event that resumes the flow (the call,  *)
(* a response of the token endpoint, a response of the DNS API, the poll   *)
(* timer) to the next await or to the tool's result.  Time is Date.now()   *)
(* in milliseconds; it passes while a flow awaits.                         *)
(***************************************************************************)
EXTENDS Integers, Sequences, FiniteSets, TLC

VARIABLES
    env,           \* process.env: the project id and the credentials
    server,        \* initServer: "starting", "ready" or "exited"
    startupError,  \* the error getGoogleCloudCredentials threw, "" when none
    projectId,     \* GoogleCloudDNSClient.projectId
    accessToken,   \* GoogleCloudDNSClient.accessToken (NoToken: undefined)
    tokenExpiry,   \* GoogleCloudDNSClient.tokenExpiry (NoExpiry: undefined)
    now,           \* Date.now()
    issued,        \* the tokens the token endpoint issued, in the order
                   \* they were cached; a token is its index here
    proc,          \* the tool invocations in flight, one record per flow
    remote         \* the record set of (RecName, "A") the DNS API holds

vars == <<remote, env, server, startupError, projectId, accessToken, tokenExpiry, now, issued, proc>>

(***************************************************************************)
(* Bounds of the model.                                                    *)
(***************************************************************************)
\* getChange polls one waitForChange may send before the model stops it.
MaxPolls == 3
\* A short and a long delay (ms) of a response or of a late timer.
FastMs == 1000
SlowMs == 150000

(***************************************************************************)
(* Program constants.                                                      *)
(***************************************************************************)
SafetyMarginMs == 60000
PollIntervalMs == 2000
DefaultTimeoutMs == 300000
DefaultTtl == 300
MsPerSecond == 1000
\* An optional number that is absent (ttl?: number).
Unset == -1
\* accessToken?: string and tokenExpiry?: number before the first exchange.
NoToken == 0
NoExpiry == 0

Procs == {"p1", "p2"}
MainProcs == {"p1"}

\* Date.now() at construction: any instant later than two safety margins.
StartClock == SafetyMarginMs + SafetyMarginMs

\* expires_in values (s) the token endpoint may report.
Lifetimes == {0, 60, 61, 121, 3600}

CredClasses == {"absent", "malformed", "null", "nokey", "valid"}

Zone == "zone1"
RecName == "www.example.com."
RecTypes == {"A", "NS", "SOA"}
InputTtls == {Unset, 0, 600}
RemoteTtls == {Unset, 0, 600}
ChangeIds == {"c1", "c2"}
Timeouts == {0, PollIntervalMs + FastMs, DefaultTimeoutMs}
NewData == <<"1.2.3.4">>
OldData == <<"9.9.9.9">>

Max(a, b) == IF a >= b THEN a ELSE b

\* JavaScript truthiness of an optional number: undefined and 0 are falsy.
Truthy(n) == n # Unset /\ n # 0

(***************************************************************************)
(* Pure functions of the client.                                           *)
(***************************************************************************)
\* getAccessToken, the cache check.
CacheValidInverted(tok, exp, t) == tok # NoToken /\ Truthy(exp) /\ t > exp
CacheValid(tok, exp, t) == tok # NoToken /\ Truthy(exp) /\ t < exp

\* getAccessToken, the credential checks before the exchange: the error
\* thrown, "none" when the flow goes on to createJWT and the exchange.
\* createJWT never reads the private key, so a credential object without
\* one passes.
CredentialFailureNoParse(creds) ==
    CASE creds = "absent" -> "CredentialsMissing"
      [] creds = "null" -> "TypeError"
      [] OTHER -> "none"
CredentialFailure(creds) ==
    CASE creds = "absent" -> "CredentialsMissing"
      [] creds = "malformed" -> "CredentialsNotJson"
      [] creds = "null" -> "TypeError"
      [] OTHER -> "none"

\* getAccessToken, the expiry cached after a successful exchange.
NewExpiryMarginAdded(t, expiresIn) == t + expiresIn * MsPerSecond + SafetyMarginMs
NewExpiryNoMargin(t, expiresIn) == t + expiresIn * MsPerSecond
NewExpiry(t, expiresIn) == t + expiresIn * MsPerSecond - SafetyMarginMs

\* getAccessToken, the error of an exchange that failed: the fetch rejected,
\* or the endpoint answered with a non-success status.
ExchangeError(resp) ==
    IF resp.fetch = "rejected" THEN [kind |-> "FetchFailed"]
    ELSE [kind |-> "TokenRejected", text |-> resp.text]

\* getAccessToken, the cache after the exchange for token id was answered at t.
CacheAfterExchangeKeepLatest(cache, resp, id, t) ==
    IF resp.ok
    THEN [token |-> id, expiry |-> Max(cache.expiry, NewExpiry(t, resp.expires_in))]
    ELSE cache
CacheAfterExchangeClearing(cache, resp, id, t) ==
    IF resp.ok
    THEN [token |-> id, expiry |-> NewExpiry(t, resp.expires_in)]
    ELSE [token |-> NoToken, expiry |-> NoExpiry]
CacheAfterExchange(cache, resp, id, t) ==
    IF resp.ok
    THEN [token |-> id, expiry |-> NewExpiry(t, resp.expires_in)]
    ELSE cache

\* makeRequest, the message of a non-success response.
ApiErrorMessageStatusOnly(resp) == resp.statusText
ApiErrorMessage(resp) ==
    IF ~resp.json THEN resp.statusText
    ELSE IF resp.errorMessage # "" THEN resp.errorMessage
    ELSE IF resp.message # "" THEN resp.message
    ELSE resp.statusText

\* createRecord, updateRecord, deleteRecord: the Change posted.
CreateBody(rec) ==
    [additions |-> <<[name |-> rec.name, type |-> rec.type,
                      ttl |-> rec.ttl, rrdatas |-> rec.rrdatas]>>]

UpdateTtl(newTtl, oldTtl) ==
    IF Truthy(newTtl) THEN newTtl
    ELSE IF Truthy(oldTtl) THEN oldTtl
    ELSE DefaultTtl

UpdateBodyRebuilt(old, new) ==
    [deletions |-> <<[name |-> old.name, type |-> old.type,
                      ttl |-> DefaultTtl, rrdatas |-> old.rrdatas]>>,
     additions |-> <<[name |-> new.name, type |-> new.type,
                      ttl |-> UpdateTtl(new.ttl, old.ttl),
                      rrdatas |-> new.rrdatas]>>]
UpdateBodyInPlace(old, new) ==
    [additions |-> <<[name |-> new.name, type |-> new.type,
                      ttl |-> UpdateTtl(new.ttl, old.ttl),
                      rrdatas |-> new.rrdatas]>>]
UpdateBody(old, new) ==
    [deletions |-> <<old>>,
     additions |-> <<[name |-> new.name, type |-> new.type,
                      ttl |-> UpdateTtl(new.ttl, old.ttl),
                      rrdatas |-> new.rrdatas]>>]

DeleteBody(rec) == [deletions |-> <<rec>>]

\* waitForChange, the loop condition.
LoopGuardLate(t, start, timeout) == t - start <= timeout
LoopGuardEarly(t, start, timeout) == t - start + PollIntervalMs < timeout
LoopGuard(t, start, timeout) == t - start < timeout

\* records.find(r => r.name === name && r.type === type): the index of the
\* first match, 0 when there is none.
Find(records, name, type) ==
    LET hits == {i \in 1..Len(records) :
                    records[i].name = name /\ records[i].type = type}
    IN IF hits = {} THEN 0
       ELSE CHOOSE i \in hits : \A j \in hits : i <= j

\* CreateDNSRecordTool.execute: the record handed to createRecord.
CreateRecordData(input) ==
    [name |-> input.name, type |-> input.type,
     ttl |-> IF Truthy(input.ttl) THEN input.ttl ELSE DefaultTtl,
     rrdatas |-> input.rrdatas]

\* UpdateDNSRecordTool.execute: the record handed to updateRecord.
NewRecordData(input) ==
    [name |-> input.name, type |-> input.type,
     ttl |-> input.ttl, rrdatas |-> input.rrdatas]

\* CreateDNSRecordTool.execute: the first input check that fails, "" when
\* all pass.  The update and delete tools check zoneName only.
InvalidField(tool, input) ==
    IF input.zoneName = "" THEN "zoneName"
    ELSE IF tool # "create" THEN ""
    ELSE IF input.name = "" THEN "name"
    ELSE IF input.type = "" THEN "type"
    ELSE IF input.rrdatas = <<>> THEN "rrdatas"
    ELSE ""

\* waitForChange: the status test that ends the loop, and the instant the
\* poll timer is due.
IsDoneAny(status) == status \in {"pending", "done"}
IsDone(status) == status = "done"

SleepUntil(start) == start + PollIntervalMs

(***************************************************************************)
(* The flow of one invocation.  A flow record holds the position (pc), the *)
(* locals of the code that are live across an await, and, below the line,  *)
(* what the flow has done so far (read by the properties only).            *)
(***************************************************************************)
NoInput == [zoneName |-> "", name |-> "", type |-> "", ttl |-> Unset, rrdatas |-> <<>>]
NoRecord == [name |-> "", type |-> "", ttl |-> Unset, rrdatas |-> <<>>]
NoBody == [none |-> TRUE]
NoResult == [isError |-> FALSE, tool |-> "none"]
NoResponse == [ok |-> TRUE, none |-> TRUE]
NoError == [kind |-> "none"]

IdleProc ==
    [pc |-> "idle", tool |-> "none", input |-> NoInput,
     timeout |-> 0, op |-> "none", body |-> NoBody, token |-> NoToken,
     existing |-> NoRecord, changeId |-> "", startTime |-> 0,
     sleepStart |-> 0, result |-> NoResult, endAt |-> 0,
     \* ---- history ----
     getCalls |-> 0,          \* getAccessToken calls of this invocation
     getState |-> "none",     \* the latest call: hit, exchanging, stored, rejected, configError
     getExch |-> 0,           \* exchanges the latest call has sent
     getAt |-> 0,             \* Date.now() at the latest call
     getTokBefore |-> NoToken,
     getExpBefore |-> NoExpiry,
     getTtl |-> 0,            \* expires_in of the latest successful exchange
     getStoredAt |-> 0,       \* Date.now() when its token was cached
     getNewExpiry |-> NoExpiry, \* the expiry cached with it
     exchanges |-> 0,         \* requests sent to the token endpoint
     apiReqs |-> 0,           \* requests sent to the DNS API
     submitted |-> <<>>,      \* the Changes posted
     returnedId |-> "",       \* the id of the Change the post returned
     waited |-> FALSE,        \* waitForChange was called
     polls |-> 0,             \* getChange calls of the wait
     pollAt |-> 0,            \* Date.now() at the latest getChange call
     prevEnd |-> 0,           \* Date.now() when the poll before it had returned
     observed |-> <<>>,       \* the statuses the polls returned
     waitEnd |-> "none",      \* running, done, timeout, error
     calledAt |-> 0,          \* Date.now() when the invocation started
     tokFails |-> 0,          \* exchanges that failed
     apiFails |-> 0,          \* API requests that failed
     failedResp |-> NoResponse, \* the answer that failed the latest of them
     thrown |-> NoError,      \* the error makeRequest threw
     listed |-> FALSE,        \* the listing was answered
     fetched |-> NoRecord,    \* the matching record the listing held
     posted |-> FALSE,        \* the post of the Change was answered
     remoteAtPost |-> NoRecord] \* the record set the API held then

IsSubmit(op) == op \in {"createRecord", "updateRecord", "deleteRecord"}

\* The tool's (or the caller's) outcome.
Finish(r, res, t) == [r EXCEPT !.pc = "done", !.result = res, !.endAt = t]

ToolError(r, err) == [isError |-> TRUE, tool |-> r.tool, error |-> err]

\* An error thrown inside makeRequest: the client operation's catch wraps
\* it with the operation and its target, waitForChange lets it pass, and
\* the tool's catch turns it into an error result.
ThrowAndPollAgain(r, err, t) ==
    IF r.op = "getChange"
    THEN [r EXCEPT !.pc = "sleeping", !.sleepStart = t]
    ELSE Finish(r, [isError |-> TRUE, tool |-> r.tool,
                    error |-> [kind |-> "ClientOp", op |-> r.op,
                               zone |-> r.input.zoneName, changeId |-> "",
                               cause |-> err]], t)
ThrowBare(r, err, t) ==
    Finish(IF r.op = "getChange" THEN [r EXCEPT !.waitEnd = "error"] ELSE r,
           [isError |-> TRUE, tool |-> r.tool,
            error |-> [kind |-> "ClientOp", op |-> "", zone |-> "",
                       changeId |-> "", cause |-> err]], t)
Throw(r, err, t) ==
    LET wrapped == [kind |-> "ClientOp", op |-> r.op,
                    zone |-> r.input.zoneName,
                    changeId |-> IF r.op = "getChange" THEN r.changeId ELSE "",
                    cause |-> err]
        ended == IF r.op = "getChange" THEN [r EXCEPT !.waitEnd = "error"] ELSE r
    IN Finish(ended, ToolError(r, wrapped), t)

\* makeRequest throws err: the flow remembers it and unwinds.
Raise(r, err, t) == Throw([r EXCEPT !.thrown = err], err, t)

\* makeRequest after getAccessToken returned tok: the fetch of the DNS API.
SendApi(r, tok) ==
    [r EXCEPT !.pc = "api_wait", !.token = tok, !.apiReqs = @ + 1,
              !.submitted = IF IsSubmit(r.op) THEN Append(@, r.body) ELSE @]

\* A client operation up to its first await: makeRequest calls
\* getAccessToken, which returns the cached token, throws on the
\* credentials, or sends the exchange to the token endpoint.
BeginRequestEager(r, op, body, t) ==
    LET called == [r EXCEPT !.op = op, !.body = body,
                            !.getCalls = @ + 1, !.getAt = t, !.getExch = 0,
                            !.getTokBefore = accessToken,
                            !.getExpBefore = tokenExpiry]
    IN IF CacheValid(accessToken, tokenExpiry, t)
       THEN SendApi([called EXCEPT !.getState = "hit"], accessToken)
       ELSE IF CredentialFailure(env.creds) # "none"
       THEN Raise([called EXCEPT !.getState = "configError"],
                  [kind |-> CredentialFailure(env.creds)], t)
       ELSE [called EXCEPT !.pc = "tok_wait", !.getState = "exchanging",
                           !.getExch = 1, !.exchanges = @ + 1,
                           !.apiReqs = @ + 1]
BeginRequest(r, op, body, t) ==
    LET called == [r EXCEPT !.op = op, !.body = body,
                            !.getCalls = @ + 1, !.getAt = t, !.getExch = 0,
                            !.getTokBefore = accessToken,
                            !.getExpBefore = tokenExpiry]
    IN IF CacheValid(accessToken, tokenExpiry, t)
       THEN SendApi([called EXCEPT !.getState = "hit"], accessToken)
       ELSE IF CredentialFailure(env.creds) # "none"
       THEN Raise([called EXCEPT !.getState = "configError"],
                  [kind |-> CredentialFailure(env.creds)], t)
       ELSE [called EXCEPT !.pc = "tok_wait", !.getState = "exchanging",
                           !.getExch = 1, !.exchanges = @ + 1]

\* waitForChange at the head of its loop.
WaitLoopStaleClock(r, t) ==
    IF LoopGuard(IF r.polls = 0 THEN t ELSE r.sleepStart, r.startTime, r.timeout)
    THEN BeginRequest([r EXCEPT !.polls = @ + 1, !.pollAt = t,
                                !.prevEnd = r.sleepStart],
                      "getChange", NoBody, t)
    ELSE Finish([r EXCEPT !.waitEnd = "timeout"],
                [isError |-> TRUE, tool |-> r.tool,
                 error |-> [kind |-> "ChangeTimeout",
                            changeId |-> r.changeId, ms |-> r.timeout]], t)
WaitLoop(r, t) ==
    IF LoopGuard(t, r.startTime, r.timeout)
    THEN BeginRequest([r EXCEPT !.polls = @ + 1, !.pollAt = t,
                                !.prevEnd = r.sleepStart],
                      "getChange", NoBody, t)
    ELSE Finish([r EXCEPT !.waitEnd = "timeout"],
                ToolError(r, [kind |-> "ChangeTimeout",
                              changeId |-> r.changeId, ms |-> r.timeout]), t)

\* waitForChange(zoneName, changeId, timeout) from its call to its first await.
StartWait(r, id, timeout, t) ==
    WaitLoop([r EXCEPT !.changeId = id, !.timeout = timeout, !.startTime = t,
                       !.waited = TRUE, !.waitEnd = "running"], t)

\* The tools after the Change was posted: waitForChange(zone, change.id).
AfterSubmitNoWait(r, change, t) ==
    Finish([r EXCEPT !.changeId = change.id],
           [isError |-> FALSE, tool |-> r.tool, changeId |-> change.id,
            status |-> change.status], t)
AfterSubmit(r, change, t) == StartWait(r, change.id, DefaultTimeoutMs, t)

\* The update and delete tools after listRecords returned.
AfterList(r, records, t) ==
    LET i == Find(records, r.input.name, r.input.type)
    IN IF i = 0
       THEN Finish(r, ToolError(r, [kind |-> "NotFound", name |-> r.input.name,
                                    type |-> r.input.type,
                                    zone |-> r.input.zoneName]), t)
       ELSE IF r.tool = "update"
       THEN BeginRequest([r EXCEPT !.existing = records[i]], "updateRecord",
                         UpdateBody(records[i], NewRecordData(r.input)), t)
       ELSE IF r.input.type = "NS" \/ r.input.type = "SOA"
       THEN Finish([r EXCEPT !.existing = records[i]],
                   ToolError(r, [kind |-> "Policy", type |-> r.input.type]), t)
       ELSE BeginRequest([r EXCEPT !.existing = records[i]], "deleteRecord",
                         DeleteBody(records[i]), t)

\* waitForChange after getChange returned.
AfterPoll(r, change, t) ==
    LET seen == [r EXCEPT !.observed = Append(@, change.status)]
    IN IF IsDone(change.status)
       THEN Finish([seen EXCEPT !.waitEnd = "done"],
                   [isError |-> FALSE, tool |-> r.tool, changeId |-> r.changeId,
                    status |-> change.status], t)
       ELSE [seen EXCEPT !.pc = "sleeping", !.sleepStart = t]

\* makeRequest, the error of a fetch that failed: the fetch itself rejected,
\* the error body parsed to null (error.error throws), or the API error.
RequestError(resp) ==
    IF resp.fetch = "rejected" THEN [kind |-> "FetchFailed"]
    ELSE IF resp.json /\ resp.null THEN [kind |-> "TypeError"]
    ELSE [kind |-> "ApiError", status |-> resp.status,
          message |-> ApiErrorMessage(resp)]

\* makeRequest after the fetch answered.
AfterResponse(r, resp, t) ==
    IF ~resp.ok
    THEN Raise([r EXCEPT !.apiFails = @ + 1, !.failedResp = resp],
               RequestError(resp), t)
    ELSE IF r.op = "listRecords" THEN AfterList(r, resp.rrsets, t)
    ELSE IF r.op = "getChange" THEN AfterPoll(r, resp.change, t)
    ELSE AfterSubmit([r EXCEPT !.returnedId = resp.change.id], resp.change, t)

\* A tool's execute (or a direct waitForChange) up to its first await.
StartTool(r, tool, input, t) ==
    LET s == [r EXCEPT !.tool = tool, !.input = input, !.calledAt = t]
    IN IF tool = "wait" THEN StartWait(s, input.changeId, input.timeout, t)
       ELSE IF InvalidField(tool, input) # ""
       THEN Finish(s, ToolError(s, [kind |-> "Validation",
                                    field |-> InvalidField(tool, input)]), t)
       ELSE IF tool = "create"
       THEN BeginRequest(s, "createRecord", CreateBody(CreateRecordData(input)), t)
       ELSE BeginRequest(s, "listRecords", NoBody, t)

(***************************************************************************)
(* The environment: what is called, and what the remote systems answer.    *)
(***************************************************************************)
\* projectVars is GOOGLE_CLOUD_PROJECT_ID || GOOGLE_CLOUD_PROJECT.
Environments(credClasses) == [projectVars : {"", "proj"}, creds : credClasses]

CreateInputs ==
    [zoneName : {"", Zone}, name : {"", RecName}, type : {"", "A"},
     ttl : InputTtls, rrdatas : {<<>>, NewData}]
UpdateInputs ==
    [zoneName : {"", Zone}, name : {RecName}, type : {"A", "NS"},
     ttl : InputTtls, rrdatas : {NewData}]
DeleteInputs ==
    [zoneName : {"", Zone}, name : {RecName}, type : RecTypes,
     ttl : {Unset}, rrdatas : {<<>>}]
WaitInputs(ids, timeouts) ==
    [zoneName : {Zone}, name : {""}, type : {""}, ttl : {Unset},
     rrdatas : {<<>>}, changeId : ids, timeout : timeouts]

\* The calls of the three record tools.
ToolCalls ==
    [tool : {"create"}, input : CreateInputs]
    \cup [tool : {"update"}, input : UpdateInputs]
    \cup [tool : {"delete"}, input : DeleteInputs]

\* Direct calls of client.waitForChange.
WaitCalls(ids, timeouts) == [tool : {"wait"}, input : WaitInputs(ids, timeouts)]

\* What the token endpoint may answer.
TokenResponses(lifetimes) ==
    [ok : {TRUE}, fetch : {"answered"}, expires_in : lifetimes, text : {""}]
    \cup [ok : {FALSE}, fetch : {"answered"}, expires_in : {0}, text : {"invalid_grant"}]
    \cup [ok : {FALSE}, fetch : {"rejected"}, expires_in : {0}, text : {""}]

\* Record sets a listing may hold for a request about (name, type).
Listings(name, type) ==
    LET other == [name |-> "other.example.com.", type |-> type,
                  ttl |-> 600, rrdatas |-> OldData]
        match(ttl) == [name |-> name, type |-> type, ttl |-> ttl, rrdatas |-> OldData]
    IN {<<>>, <<other>>}
       \cup {<<match(ttl)>> : ttl \in RemoteTtls}
       \cup {<<other, match(ttl)>> : ttl \in RemoteTtls}

ServiceUnavailable ==
    [ok |-> FALSE, fetch |-> "answered", status |-> 503,
     statusText |-> "Service Unavailable", json |-> FALSE, null |-> FALSE,
     errorMessage |-> "", message |-> ""]

\* What a fetch of the DNS API may end in other than success: a non-success
\* status whose body is a structured error ({error: {message}}), an object
\* with a message of its own or with none, JSON null, or not JSON at all;
\* or no answer (the fetch rejects).
ErrorResponses ==
    [ok : {FALSE}, fetch : {"answered"}, status : {404}, statusText : {"Not Found"},
     json : {TRUE}, null : {FALSE}, errorMessage : {"notFound", ""}, message : {""}]
    \cup [ok : {FALSE}, fetch : {"answered"}, status : {409}, statusText : {"Conflict"},
          json : {TRUE}, null : {FALSE}, errorMessage : {""}, message : {"exists"}]
    \cup [ok : {FALSE}, fetch : {"answered"}, status : {500}, statusText : {"Server Error"},
          json : {TRUE}, null : {TRUE}, errorMessage : {""}, message : {""}]
    \cup {ServiceUnavailable}
    \cup [ok : {FALSE}, fetch : {"rejected"}, status : {0}, statusText : {""},
          json : {FALSE}, null : {FALSE}, errorMessage : {""}, message : {""}]

\* What the DNS API may answer to the request the flow has in flight.
ApiResponses(r, errors) ==
    errors
    \cup IF r.op = "listRecords"
         THEN [ok : {TRUE}, rrsets : Listings(r.input.name, r.input.type)]
         ELSE IF r.op = "getChange"
         THEN [ok : {TRUE}, change : [id : {r.changeId}, status : {"pending", "done"}]]
         ELSE [ok : {TRUE}, change : [id : ChangeIds, status : {"pending", "done"}]]

(***************************************************************************)
(* Actions.  Each takes the part of the environment it draws from.         *)
(***************************************************************************)
InitWith(credClasses, remotes) ==
    /\ remote \in remotes
    /\ env \in Environments(credClasses)
    /\ server = "starting"
    /\ startupError = ""
    /\ projectId = ""
    /\ accessToken = NoToken
    /\ tokenExpiry = NoExpiry
    /\ now = StartClock
    /\ issued = <<>>
    /\ proc = [p \in Procs |-> IdleProc]

\* The event loop runs one flow at a time, and a flow keeps the thread from
\* one await to the next.  At the awaits of the exchange, of the API fetch
\* and of the poll timer the flow is suspended and the thread is free.
SuspendedBusySleep(r) == r.pc \in {"tok_wait", "api_wait"}
Suspended(r) == r.pc \in {"tok_wait", "api_wait", "sleeping"}

ThreadFree(p) ==
    \A q \in Procs \ {p} : proc[q].pc \in {"idle", "done"} \/ Suspended(proc[q])

\* getGoogleCloudCredentials: the error it throws, "" when it returns.
LoadFailure(e) ==
    IF e.projectVars = "" THEN "ProjectIdRequired"
    ELSE IF e.creds = "absent" THEN "CredentialsRequired"
    ELSE ""

\* initServer: load the configuration, construct the client, or exit.
InitServer ==
    /\ server = "starting"
    /\ IF LoadFailure(env) # ""
       THEN /\ server' = "exited"
            /\ startupError' = LoadFailure(env)
            /\ UNCHANGED projectId
       ELSE /\ server' = "ready"
            /\ projectId' = env.projectVars
            /\ UNCHANGED startupError
    /\ UNCHANGED <<remote, env, accessToken, tokenExpiry, now, issued, proc>>

\* A tool is called (or waitForChange is, directly) and runs to its first
\* await.  A flow is one invocation.
Invoke(p, calls) ==
    /\ server = "ready"
    /\ proc[p].pc = "idle"
    /\ ThreadFree(p)
    /\ \E c \in calls :
         proc' = [proc EXCEPT ![p] = StartTool(IdleProc, c.tool, c.input, now)]
    /\ UNCHANGED <<remote, env, server, startupError, projectId, accessToken, tokenExpiry, now, issued>>

\* The token endpoint answers: getAccessToken caches the token and
\* makeRequest sends its request, or getAccessToken throws.  The endpoint
\* issued the token some time before its answer was read, not before the
\* exchange was sent.
TokenResponse(p, latencies, lifetimes, transits) ==
    /\ proc[p].pc = "tok_wait"
    /\ ThreadFree(p)
    /\ \E d \in latencies : \E resp \in TokenResponses(lifetimes) : \E tr \in transits :
         LET t == now + d
             r == proc[p]
             id == Len(issued) + 1
             cache == CacheAfterExchange([token |-> accessToken, expiry |-> tokenExpiry],
                                         resp, id, t)
         IN /\ now' = t
            /\ accessToken' = cache.token
            /\ tokenExpiry' = cache.expiry
            /\ IF resp.ok
               THEN /\ issued' = Append(issued, [at |-> Max(r.getAt, t - tr),
                                                 storedAt |-> t,
                                                 expires_in |-> resp.expires_in])
                    /\ proc' = [proc EXCEPT ![p] =
                                  SendApi([r EXCEPT !.getState = "stored",
                                                    !.getTtl = resp.expires_in,
                                                    !.getNewExpiry = NewExpiry(t, resp.expires_in),
                                                    !.getStoredAt = t],
                                          id)]
               ELSE /\ tr = 0
                    /\ UNCHANGED issued
                    /\ proc' = [proc EXCEPT ![p] =
                                  Raise([r EXCEPT !.getState = "rejected",
                                                  !.tokFails = @ + 1],
                                        ExchangeError(resp), t)]
    /\ UNCHANGED <<remote, env, server, startupError, projectId>>

\* The DNS API answers the request in flight.
ApiResponse(p, latencies, errors) ==
    /\ proc[p].pc = "api_wait"
    /\ ThreadFree(p)
    /\ \E d \in latencies : \E resp \in ApiResponses(proc[p], errors) :
         /\ now' = now + d
         /\ proc' = [proc EXCEPT ![p] = AfterResponse(proc[p], resp, now + d)]
    /\ UNCHANGED <<remote, env, server, startupError, projectId, accessToken, tokenExpiry, issued>>

\* The 2000 ms timer of waitForChange fires, on time or late, and the loop
\* goes round.
Wake(p, overshoots) ==
    /\ proc[p].pc = "sleeping"
    /\ ThreadFree(p)
    /\ \E d \in overshoots :
         LET t == Max(now, SleepUntil(proc[p].sleepStart) + d)
         IN /\ LoopGuard(t, proc[p].startTime, proc[p].timeout) => proc[p].polls < MaxPolls
            /\ now' = t
            /\ proc' = [proc EXCEPT ![p] = WaitLoop(proc[p], t)]
    /\ UNCHANGED <<remote, env, server, startupError, projectId, accessToken, tokenExpiry, issued>>

(***************************************************************************)
(* The DNS API as the update tool relies on it: a listing returns the      *)
(* record set now held for the name and type, and a Change is applied as a *)
(* whole or rejected: every deletion must be the record set now held, and  *)
(* an addition must not meet a record set that is still there.             *)
(***************************************************************************)
RemoteTtlValues == {DefaultTtl, 600}

RemoteStates ==
    {NoRecord} \cup [name : {RecName}, type : {"A"}, ttl : RemoteTtlValues,
                     rrdatas : {OldData, NewData}]

RemoteList(rem, name, type) ==
    IF rem # NoRecord /\ rem.name = name /\ rem.type = type THEN <<rem>> ELSE <<>>

ChangeDeletions(body) == IF "deletions" \in DOMAIN body THEN body.deletions ELSE <<>>
ChangeAdditions(body) == IF "additions" \in DOMAIN body THEN body.additions ELSE <<>>

RemoteAccepts(rem, body) ==
    /\ \A i \in 1..Len(ChangeDeletions(body)) :
          rem # NoRecord /\ ChangeDeletions(body)[i] = rem
    /\ ChangeAdditions(body) # <<>>
          => (rem = NoRecord \/ ChangeDeletions(body) # <<>>)

RemoteAfter(rem, body) ==
    IF ChangeAdditions(body) # <<>> THEN ChangeAdditions(body)[1]
    ELSE IF ChangeDeletions(body) # <<>> THEN NoRecord
    ELSE rem

PreconditionFailed ==
    [ok |-> FALSE, fetch |-> "answered", status |-> 412,
     statusText |-> "Precondition Failed", json |-> TRUE, null |-> FALSE,
     errorMessage |-> "preconditionFailed", message |-> ""]

\* What the API answers to the request of flow r, holding rem.
RemoteResponses(r, rem) ==
    IF r.op = "listRecords"
    THEN {[ok |-> TRUE, rrsets |-> RemoteList(rem, r.input.name, r.input.type)]}
    ELSE IF r.op = "getChange"
    THEN [ok : {TRUE}, change : [id : {r.changeId}, status : {"pending", "done"}]]
    ELSE IF RemoteAccepts(rem, r.body)
    THEN [ok : {TRUE}, change : [id : {"c1"}, status : {"pending"}]]
    ELSE {PreconditionFailed}

\* The API answers the request in flight from the record set it holds, and
\* applies an accepted Change.
RemoteAnswer(p) ==
    /\ proc[p].pc = "api_wait"
    /\ ThreadFree(p)
    /\ \E resp \in RemoteResponses(proc[p], remote) :
         LET r == proc[p]
             seen == IF r.op = "listRecords"
                     THEN [r EXCEPT !.listed = TRUE,
                                    !.fetched = IF resp.rrsets = <<>> THEN NoRecord
                                                ELSE resp.rrsets[1]]
                     ELSE IF IsSubmit(r.op)
                     THEN [r EXCEPT !.posted = TRUE, !.remoteAtPost = remote]
                     ELSE r
         IN /\ proc' = [proc EXCEPT ![p] = AfterResponse(seen, resp, now)]
            /\ remote' = IF IsSubmit(r.op) /\ resp.ok THEN RemoteAfter(remote, r.body)
                         ELSE remote
    /\ UNCHANGED <<env, server, startupError, projectId, accessToken, tokenExpiry, now, issued>>

\* Another client of the API changes the record set.
RemoteEdit ==
    /\ \E rem \in RemoteStates \ {remote} : remote' = rem
    /\ UNCHANGED <<env, server, startupError, projectId, accessToken, tokenExpiry, now, issued, proc>>

(***************************************************************************)
(* Spec: the three record tools, every input and every credential class,   *)
(* responses that are immediate or slow, tokens that outlive the call or   *)
(* are stale at once.                                                      *)
(***************************************************************************)
Init == InitWith(CredClasses, {NoRecord})

Next ==
    \/ InitServer
    \/ \E p \in MainProcs : Invoke(p, ToolCalls)
    \/ \E p \in MainProcs : TokenResponse(p, {0}, {60, 3600}, {0})
    \/ \E p \in MainProcs : ApiResponse(p, {0, SlowMs}, ErrorResponses)
    \/ \E p \in MainProcs : Wake(p, {0})

Spec == Init /\ [][Next]_vars

(***************************************************************************)
(* SpecToken: the token cache.  One flow sends a run of requests (the      *)
(* polls of a direct waitForChange); the token endpoint reports every      *)
(* lifetime, and time passes between the requests so that a cached token   *)
(* is found fresh, near its expiry, and stale.                             *)
(***************************************************************************)
InitToken == InitWith(CredClasses, {NoRecord})

NextToken ==
    \/ InitServer
    \/ \E p \in MainProcs : Invoke(p, WaitCalls({"c1"}, {DefaultTimeoutMs}))
    \/ \E p \in MainProcs : TokenResponse(p, {0, FastMs}, Lifetimes, {0})
    \/ \E p \in MainProcs : ApiResponse(p, {0, FastMs}, ErrorResponses)
    \/ \E p \in MainProcs : Wake(p, {0})

SpecToken == InitToken /\ [][NextToken]_vars

(***************************************************************************)
(* SpecWait: waitForChange called with every timeout, against responses    *)
(* and timers of every delay.                                              *)
(***************************************************************************)
InitWait == InitWith({"valid"}, {NoRecord})

NextWait ==
    \/ InitServer
    \/ \E p \in MainProcs : Invoke(p, WaitCalls(ChangeIds, Timeouts))
    \/ \E p \in MainProcs : TokenResponse(p, {0}, {3600}, {0})
    \/ \E p \in MainProcs : ApiResponse(p, {0, FastMs, SlowMs}, ErrorResponses)
    \/ \E p \in MainProcs : Wake(p, {0, FastMs})

SpecWait == InitWait /\ [][NextWait]_vars

(***************************************************************************)
(* SpecConc: two invocations at once, each a waitForChange whose polls     *)
(* find the shared token cache fresh or stale.  The exchanges of the two   *)
(* are answered in either order, and a token reaches the cache at once or  *)
(* long after the endpoint issued it.                                      *)
(***************************************************************************)
\* One invocation waits with a timeout of at most two polls, the other with
\* one of at most three.
ConcTimeouts(p) ==
    IF p \in MainProcs THEN {PollIntervalMs + FastMs}
    ELSE {PollIntervalMs + PollIntervalMs + FastMs}

ConcCalls(p) == WaitCalls({"c1"}, ConcTimeouts(p))

InitConc == InitWith({"valid"}, {NoRecord})

NextConc ==
    \/ InitServer
    \/ \E p \in Procs : Invoke(p, ConcCalls(p))
    \/ \E p \in Procs : TokenResponse(p, {0, SlowMs}, {60, 3600}, {0, FastMs, SlowMs})
    \/ \E p \in Procs : ApiResponse(p, {0}, {ServiceUnavailable})
    \/ \E p \in Procs : Wake(p, {0})

SpecConc == InitConc /\ [][NextConc]_vars

(***************************************************************************)
(* SpecLive: waitForChange with timeouts of a few polls, under the         *)
(* scheduling the run time guarantees: a fetch that is in flight is        *)
(* answered (or rejects) and a timer that is set fires.                    *)
(***************************************************************************)
\* Timeouts of no poll, of at most two and of at most three polls: none
\* lets a wait reach MaxPolls with time to spare.
LiveTimeouts == {0, PollIntervalMs + FastMs, PollIntervalMs + PollIntervalMs + FastMs}

InitLive == InitWith({"valid"}, {NoRecord})

LiveToken == \E p \in MainProcs : TokenResponse(p, {0}, {3600}, {0})
LiveApi == \E p \in MainProcs : ApiResponse(p, {0, FastMs}, ErrorResponses)
LiveWake == \E p \in MainProcs : Wake(p, {0, FastMs})

NextLive ==
    \/ InitServer
    \/ \E p \in MainProcs : Invoke(p, WaitCalls(ChangeIds, LiveTimeouts))
    \/ LiveToken
    \/ LiveApi
    \/ LiveWake

SpecLive ==
    /\ InitLive
    /\ [][NextLive]_vars
    /\ WF_vars(LiveToken)
    /\ WF_vars(LiveApi)
    /\ WF_vars(LiveWake)

(***************************************************************************)
(* SpecRemote: the update tool against the record set the API holds,       *)
(* which other clients (another invocation among them) change at any       *)
(* moment.                                                                 *)
(***************************************************************************)
UpdateCalls == [tool : {"update"}, input : UpdateInputs]

InitRemote == InitWith({"valid"}, RemoteStates)

NextRemote ==
    \/ InitServer
    \/ \E p \in MainProcs : Invoke(p, UpdateCalls)
    \/ \E p \in MainProcs : TokenResponse(p, {0}, {3600}, {0})
    \/ \E p \in MainProcs : RemoteAnswer(p)
    \/ \E p \in MainProcs : Wake(p, {0})
    \/ RemoteEdit

SpecRemote == InitRemote /\ [][NextRemote]_vars

(***************************************************************************)
(* Properties.                                                             *)
(***************************************************************************)
Last(q) == q[Len(q)]

\* C1: a getAccessToken call that finds a token cached whose expiry lies
\* more than the safety margin after the call sends nothing to the token
\* endpoint, returns exactly the cached token (the request carries it) and
\* leaves accessToken and tokenExpiry as they were.
C1_CacheHit ==
    [][\A p \in Procs :
         (/\ proc'[p].getCalls = proc[p].getCalls + 1
          /\ accessToken # NoToken
          /\ tokenExpiry - proc'[p].getAt > SafetyMarginMs)
         => /\ proc'[p].getState = "hit"
            /\ proc'[p].getExch = 0
            /\ proc'[p].exchanges = proc[p].exchanges
            /\ proc'[p].pc = "api_wait"
            /\ proc'[p].token = accessToken
            /\ accessToken' = accessToken
            /\ tokenExpiry' = tokenExpiry]_vars

\* C1 witness: a request went out on a cache hit, the cached expiry more
\* than the margin away.
C1_Witness ==
    \E p \in Procs :
        /\ proc[p].pc = "api_wait"
        /\ proc[p].getState = "hit"
        /\ proc[p].getTokBefore # NoToken
        /\ proc[p].getExpBefore - proc[p].getAt > SafetyMarginMs
        /\ proc[p].token = proc[p].getTokBefore

\* The credentials pass getAccessToken's checks.
CredentialsLoad == env.creds \in {"nokey", "valid"}

\* C2 as claimed: a getAccessToken call that finds no token, or a cached
\* expiry at most the safety margin away, sends exactly one exchange, and
\* the expiry cached after a successful exchange is later than the instant
\* it is cached, whatever lifetime the endpoint reported.  (Stated for
\* credentials that load.)
C2_Original ==
    \A p \in Procs :
        (/\ proc[p].getCalls > 0
         /\ CredentialsLoad
         /\ \/ proc[p].getTokBefore = NoToken
            \/ proc[p].getExpBefore - proc[p].getAt <= SafetyMarginMs)
        => /\ proc[p].getExch = 1
           /\ proc[p].getState = "stored"
                => proc[p].getNewExpiry > proc[p].getStoredAt

\* C2 amended: with credentials that load, a call sends exactly one
\* exchange when no token is cached or the cached expiry (which already has
\* the margin taken off) is not after the call, and none when the cached
\* expiry is after the call, however close; after a successful exchange the
\* cached expiry is the instant of caching plus the reported lifetime less
\* the margin, which is in the future exactly when the lifetime exceeds the
\* margin.
C2_Refresh ==
    \A p \in Procs :
        (proc[p].getCalls > 0 /\ CredentialsLoad)
        => /\ (proc[p].getTokBefore = NoToken \/ proc[p].getExpBefore <= proc[p].getAt)
                => proc[p].getExch = 1
           /\ (proc[p].getTokBefore # NoToken /\ proc[p].getExpBefore > proc[p].getAt)
                => proc[p].getExch = 0
           /\ proc[p].getState = "stored"
                => /\ proc[p].getNewExpiry
                        = proc[p].getStoredAt + proc[p].getTtl * MsPerSecond - SafetyMarginMs
                   /\ (proc[p].getNewExpiry > proc[p].getStoredAt)
                        <=> (proc[p].getTtl * MsPerSecond > SafetyMarginMs)
                   /\ proc[p].pc = "api_wait" => tokenExpiry = proc[p].getNewExpiry

\* C2 witness: a stale cached token was replaced by one exchange.
C2_Witness ==
    \E p \in Procs :
        /\ proc[p].getState = "stored"
        /\ proc[p].getTokBefore # NoToken
        /\ proc[p].getExpBefore <= proc[p].getAt
        /\ proc[p].getExch = 1
        /\ proc[p].getNewExpiry > proc[p].getStoredAt

\* C3: waitForChange returns on the first poll that reports "done" and on
\* no other: a "done" is the last status observed and ends the wait with
\* that Change, a wait that returned observed "done" last and nothing but
\* other statuses before, and a poll after the first starts at least
\* 2000 ms after the poll before it returned.
C3_WaitSuccess ==
    \A p \in Procs :
        LET r == proc[p]
            n == Len(r.observed)
        IN /\ \A i \in 1..n :
                r.observed[i] = "done"
                => /\ i = n
                   /\ r.pc = "done"
                   /\ r.waitEnd = "done"
                   /\ ~r.result.isError
           /\ r.waitEnd = "done"
                => /\ n >= 1
                   /\ r.observed[n] = "done"
                   /\ n = r.polls
                   /\ r.result.status = "done"
                   /\ r.result.changeId = r.changeId
           /\ (r.waited /\ r.pc = "done" /\ ~r.result.isError)
                => r.waitEnd = "done"
           /\ r.polls >= 2 => r.pollAt - r.prevEnd >= PollIntervalMs

\* C3 witness: the wait returned on its third poll.
C3_Witness ==
    \E p \in Procs :
        /\ proc[p].waitEnd = "done"
        /\ Len(proc[p].observed) = 3
        /\ ~proc[p].result.isError

\* C4: a wait that ends by its timeout fails with the ChangeTimeout error,
\* which carries the change id and the timeout, no less than timeoutMs, and
\* at least timeoutMs have passed since the wait started; it never saw
\* "done".  A wait whose polls all returned a status other than "done" ends
\* in no other way, and a failed poll ends it with the wrapped request
\* error, never with ChangeTimeout.
C4_WaitTimeout ==
    \A p \in Procs :
        LET r == proc[p]
        IN /\ r.waitEnd = "timeout"
                => /\ r.pc = "done"
                   /\ r.result.isError
                   /\ r.result.error.kind = "ChangeTimeout"
                   /\ r.result.error.changeId = r.changeId
                   /\ r.result.error.ms >= r.timeout
                   /\ r.endAt - r.startTime >= r.timeout
                   /\ \A i \in 1..Len(r.observed) : r.observed[i] # "done"
           /\ (r.waited /\ r.pc = "done" /\ r.waitEnd # "error"
               /\ \A i \in 1..Len(r.observed) : r.observed[i] # "done")
                => r.waitEnd = "timeout"
           /\ r.waitEnd = "error"
                => /\ r.result.isError
                   /\ r.result.error.kind = "ClientOp"
                   /\ r.result.error.op = "getChange"

\* C4 witness: a wait gave up after two polls, later than its timeout.
C4_Witness ==
    \E p \in Procs :
        /\ proc[p].waitEnd = "timeout"
        /\ Len(proc[p].observed) = 2
        /\ proc[p].timeout > 0
        /\ proc[p].endAt - proc[p].startTime > proc[p].timeout

MutatingTools == {"create", "update", "delete"}

\* C5 as claimed: the delete tool, asked to delete an NS or SOA record of a
\* named zone, sends no request at all (no token exchange, no listing, no
\* Change) and ends with the policy error.
C5_NoRequest ==
    \A p \in Procs :
        LET r == proc[p]
        IN (r.tool = "delete" /\ r.input.zoneName # "" /\ r.input.type \in {"NS", "SOA"})
           => /\ r.exchanges = 0
              /\ r.apiReqs = 0
              /\ r.pc = "done" => (r.result.isError /\ r.result.error.kind = "Policy")

\* C6: a record tool reports success only when it posted one Change, handed
\* the id that post returned to waitForChange, and a poll of that id
\* observed "done"; a wait that timed out, or whose poll failed, makes the
\* tool report an error.
C6_SuccessAfterWait ==
    \A p \in Procs :
        LET r == proc[p]
        IN (r.tool \in MutatingTools /\ r.pc = "done")
           => /\ ~r.result.isError
                   => /\ Len(r.submitted) = 1
                      /\ r.waited
                      /\ r.changeId = r.returnedId
                      /\ r.waitEnd = "done"
                      /\ r.observed # <<>>
                      /\ Last(r.observed) = "done"
                      /\ r.op = "getChange"
              /\ r.waitEnd \in {"timeout", "error"} => r.result.isError

\* C6 witness: the update tool reported success after a second poll.
C6_Witness ==
    \E p \in Procs :
        /\ proc[p].tool = "update"
        /\ proc[p].pc = "done"
        /\ ~proc[p].result.isError
        /\ Len(proc[p].observed) = 2

\* C7 as claimed: the Change updateRecord posts adds the record with the
\* old record's ttl when no new ttl is given, whatever the old ttl is
\* (absent and 0 included), and with the new ttl when one is given.
C7_TtlDefault ==
    \A p \in Procs :
        LET r == proc[p]
        IN (r.op = "updateRecord" /\ r.submitted # <<>>)
           => r.submitted[1].additions[1].ttl
                = IF r.input.ttl = Unset THEN r.existing.ttl ELSE r.input.ttl

\* The record the tool handed to createRecord, and the addition of an update.
C8_CreatedRecord(r) ==
    [name |-> r.input.name, type |-> r.input.type,
     ttl |-> IF r.input.ttl \in {Unset, 0} THEN DefaultTtl ELSE r.input.ttl,
     rrdatas |-> r.input.rrdatas]
C8_UpdatedRecord(r) ==
    [name |-> r.input.name, type |-> r.input.type,
     ttl |-> IF r.input.ttl \notin {Unset, 0} THEN r.input.ttl
             ELSE IF r.existing.ttl \notin {Unset, 0} THEN r.existing.ttl
             ELSE DefaultTtl,
     rrdatas |-> r.input.rrdatas]

\* The client operation that posted r's Change.
C8_Posted(r) ==
    IF r.tool = "create" THEN "createRecord"
    ELSE IF r.tool = "update" THEN "updateRecord"
    ELSE "deleteRecord"

C9_Original ==
    env.creds = "malformed"
    => /\ server # "ready"
       /\ \A p \in Procs : proc[p].exchanges = 0

\* C9 amended: credentials that are not JSON do not fail the loading at
\* start-up (getGoogleCloudCredentials rejects only absent values), so the
\* client is constructed when the project id is set; every request then
\* fails in getAccessToken with the not-valid-JSON error before any
\* exchange, so nothing is ever sent to the token endpoint or to the API.
C9_FailsAtFirstRequest ==
    env.creds = "malformed"
    => /\ startupError # "CredentialsRequired"
       /\ (server = "exited" => env.projectVars = "")
       /\ \A p \in Procs :
            LET r == proc[p]
            IN /\ r.exchanges = 0
               /\ r.apiReqs = 0
               /\ r.getCalls > 0
                    => /\ r.pc = "done"
                       /\ r.getState = "configError"
                       /\ r.result.isError
                       /\ r.result.error.kind = "ClientOp"
                       /\ r.result.error.cause.kind = "CredentialsNotJson"

\* C9 witness: the server is ready with credentials that are not JSON, and
\* a tool call failed on them.
C9_Witness ==
    /\ env.creds = "malformed"
    /\ server = "ready"
    /\ \E p \in Procs :
         /\ proc[p].pc = "done"
         /\ proc[p].getCalls = 1
         /\ proc[p].result.isError
         /\ proc[p].result.error.kind = "ClientOp"

\* C10 as claimed: with credentials that parse but hold no private key,
\* getAccessToken sends nothing to the token endpoint, and the error a
\* request ends with is not the one of a rejected exchange.
C10_NoKeyFailsFast ==
    env.creds = "nokey"
    => \A p \in Procs :
         LET r == proc[p]
         IN /\ r.exchanges = 0
            /\ (r.getCalls > 0 /\ r.pc = "done" /\ r.result.isError
                /\ r.result.error.kind = "ClientOp")
                 => r.result.error.cause.kind # "TokenRejected"

\* C11: a request the API answered with a non-success status makes
\* makeRequest throw, never return: the flow ends with the error and has
\* consumed no result of that request.  The error carries the numeric
\* status and the provider's message when the body is a structured API
\* error (error.message, or a message of its own), and the status and the
\* raw status text when the body is not JSON.
C11_ErrorNormalized ==
    \A p \in Procs :
        LET r == proc[p]
            resp == r.failedResp
        IN (r.apiFails > 0 /\ resp.fetch = "answered")
           => /\ r.pc = "done"
              /\ r.result.isError
              /\ r.result.error.kind = "ClientOp"
              /\ r.result.error.cause = r.thrown
              /\ IsSubmit(r.op) => (r.returnedId = "" /\ ~r.waited)
              /\ r.op = "getChange" => Len(r.observed) = r.polls - 1
              /\ r.op = "listRecords" => (r.existing = NoRecord /\ r.submitted = <<>>)
              /\ (resp.json /\ ~resp.null /\ resp.errorMessage # "")
                   => r.thrown = [kind |-> "ApiError", status |-> resp.status,
                                  message |-> resp.errorMessage]
              /\ (resp.json /\ ~resp.null /\ resp.errorMessage = "" /\ resp.message # "")
                   => r.thrown = [kind |-> "ApiError", status |-> resp.status,
                                  message |-> resp.message]
              /\ ~resp.json
                   => r.thrown = [kind |-> "ApiError", status |-> resp.status,
                                  message |-> resp.statusText]

\* C11 witness: the post of an update was answered 404 with a structured
\* error, and the tool ended with that status and message.
C11_Witness ==
    \E p \in Procs :
        /\ proc[p].op = "updateRecord"
        /\ proc[p].pc = "done"
        /\ proc[p].failedResp.ok = FALSE
        /\ proc[p].failedResp.status = 404
        /\ proc[p].thrown = [kind |-> "ApiError", status |-> 404, message |-> "notFound"]

\* C12: no request is reissued after it failed.  A flow has at most one
\* failed request (an exchange or an API request), and that failure is its
\* end: the tool's error result carries it.  A failed getChange ends the
\* wait at once with that error, no sleep and no further poll.  A flow lists
\* at most once and posts at most once; only getChange is called again, and
\* only after every earlier poll returned a status other than "done".
C12_NoRetry ==
    \A p \in Procs :
        LET r == proc[p]
        IN /\ r.tokFails + r.apiFails <= 1
           /\ r.tokFails + r.apiFails = 1
                => /\ r.pc = "done"
                   /\ r.result.isError
                   /\ r.result.error.kind = "ClientOp"
                   /\ r.result.error.cause = r.thrown
           /\ (r.tokFails + r.apiFails = 1 /\ r.op = "getChange")
                => /\ r.waitEnd = "error"
                   /\ Len(r.observed) = r.polls - 1
           /\ r.exchanges <= r.getCalls
           /\ Len(r.submitted) <= 1
           /\ r.apiReqs <= (IF r.tool \in {"update", "delete"} THEN 1 ELSE 0)
                            + Len(r.submitted) + r.polls
           /\ r.getCalls <= (IF r.tool \in {"update", "delete"} THEN 1 ELSE 0)
                            + (IF r.tool \in MutatingTools THEN 1 ELSE 0) + r.polls
           /\ r.polls >= 2
                => /\ Len(r.observed) >= r.polls - 1
                   /\ \A i \in 1..(r.polls - 1) : r.observed[i] # "done"

\* C12 witness: the second poll of a delete's wait failed, and the tool
\* ended there with two polls sent.
C12_Witness ==
    \E p \in Procs :
        /\ proc[p].tool = "delete"
        /\ proc[p].op = "getChange"
        /\ proc[p].apiFails = 1
        /\ proc[p].polls = 2
        /\ proc[p].observed = <<"pending">>
        /\ proc[p].pc = "done"
        /\ proc[p].waitEnd = "error"

\* C13: whatever the order in which concurrent exchanges are answered, the
\* cache holds nothing or a token the endpoint issued (the one cached last)
\* together with the expiry computed from that token's own exchange, and
\* every caller whose exchange succeeded goes on with the token that
\* exchange issued, every caller served from the cache with the token that
\* was cached.
C13_ConcurrentRefresh ==
    /\ accessToken = NoToken => (tokenExpiry = NoExpiry /\ issued = <<>>)
    /\ accessToken # NoToken
         => /\ accessToken \in 1..Len(issued)
            /\ accessToken = Len(issued)
            /\ tokenExpiry = issued[accessToken].storedAt
                               + issued[accessToken].expires_in * MsPerSecond
                               - SafetyMarginMs
    /\ \A p \in Procs :
         LET r == proc[p]
         IN /\ r.getState \in {"hit", "stored"}
                 => /\ r.token \in 1..Len(issued)
                    /\ r.token # NoToken
            /\ r.getState = "stored"
                 => /\ issued[r.token].storedAt = r.getStoredAt
                    /\ issued[r.token].expires_in = r.getTtl
            /\ r.getState = "hit" => r.token = r.getTokBefore

\* C13 witness: two invocations found the same stale token cached, each
\* sent its own exchange, and both were answered, with different lifetimes.
C13_Witness ==
    \E p, q \in Procs :
        /\ p # q
        /\ proc[p].getState = "stored"
        /\ proc[q].getState = "stored"
        /\ proc[p].getTokBefore # NoToken
        /\ proc[p].getTokBefore = proc[q].getTokBefore
        /\ proc[p].getExpBefore <= proc[p].getAt
        /\ proc[q].getExpBefore <= proc[q].getAt
        /\ proc[p].token # proc[q].token
        /\ proc[p].getTtl # proc[q].getTtl
        /\ accessToken = proc[q].token

\* C14: every failure of a client operation ends the tool with an error
\* result.  An error thrown under makeRequest (the credentials, the
\* exchange, the fetch, the status) reaches the result wrapped by the
\* operation that failed: the result holds the error thrown, that
\* operation, the zone it was called for and, for getChange, the change id.
\* A wait that timed out ends the tool with the error of that change id.
\* A tool that reports success had no failure.
C14_FailureReachesBoundary ==
    \A p \in Procs :
        LET r == proc[p]
        IN /\ (r.thrown # NoError \/ r.tokFails > 0 \/ r.apiFails > 0
               \/ r.getState \in {"configError", "rejected"})
                => /\ r.pc = "done"
                   /\ r.result.isError
                   /\ r.result.tool = r.tool
                   /\ r.result.error.kind = "ClientOp"
                   /\ r.result.error.cause = r.thrown
                   /\ r.thrown # NoError
                   /\ r.result.error.op = r.op
                   /\ r.result.error.op
                        \in {"listRecords", "createRecord", "updateRecord",
                             "deleteRecord", "getChange"}
                   /\ r.result.error.zone = Zone
                   /\ r.op = "getChange"
                        => /\ r.result.error.changeId = r.returnedId
                           /\ r.returnedId \in ChangeIds
           /\ r.waitEnd = "timeout"
                => /\ r.pc = "done"
                   /\ r.result.isError
                   /\ r.result.error.changeId = r.returnedId
           /\ (r.pc = "done" /\ ~r.result.isError)
                => /\ r.thrown = NoError
                   /\ r.tokFails = 0
                   /\ r.apiFails = 0
                   /\ r.waitEnd = "done"

\* C14 witness: the post of a delete was answered 503, and the delete tool
\* ended with the error of deleteRecord for the zone.
C14_Witness ==
    \E p \in Procs :
        /\ proc[p].tool = "delete"
        /\ proc[p].pc = "done"
        /\ proc[p].result.isError
        /\ proc[p].result.error.kind = "ClientOp"
        /\ proc[p].result.error.op = "deleteRecord"
        /\ proc[p].result.error.zone = Zone
        /\ proc[p].result.error.cause
             = [kind |-> "ApiError", status |-> 503, message |-> "Service Unavailable"]

\* A wait has ended: its outcome and the result that goes with it.
C15_Ended(r) ==
    /\ r.pc = "done"
    /\ \/ r.waitEnd = "done" /\ ~r.result.isError /\ r.result.status = "done"
       \/ r.waitEnd = "timeout" /\ r.result.isError
                                /\ r.result.error.kind = "ChangeTimeout"
       \/ r.waitEnd = "error" /\ r.result.isError
                              /\ r.result.error.kind = "ClientOp"

\* C15: when every fetch is answered and every timer fires, a waitForChange
\* that was called ends, in one of three ways: it returns the Change that is
\* "done", it fails with the timeout error, or it fails with the error of a
\* poll.  Every poll starts less than timeoutMs after the wait started, so
\* a wait sends no poll when timeoutMs is 0 and its n-th poll only when
\* (n - 1) * 2000 ms is less than timeoutMs.
C15_WaitTerminates ==
    /\ [](\A p \in Procs :
            LET r == proc[p]
            IN /\ r.polls >= 1
                    => /\ r.pollAt - r.startTime < r.timeout
                       /\ (r.polls - 1) * PollIntervalMs < r.timeout
               /\ r.waited => (r.waitEnd = "running" \/ C15_Ended(r)))
    /\ \A p \in Procs :
         (proc[p].waited /\ proc[p].waitEnd = "running") ~> C15_Ended(proc[p])

\* C15 witness: a wait ended by its timeout after two polls.
C15_Witness ==
    \E p \in Procs :
        /\ proc[p].waited
        /\ proc[p].pc = "done"
        /\ proc[p].waitEnd = "timeout"
        /\ proc[p].polls = 2
        /\ proc[p].endAt - proc[p].startTime >= proc[p].timeout

\* C16: an update invocation posts its Change only after its own listing
\* was answered, and the deletion of that Change is exactly the record the
\* listing held for the name and type; when the listing held none, the tool
\* ends with the not-found error, having posted nothing and started no
\* wait.  When the record set the API holds at the post is no longer the one
\* fetched, the post is rejected and the tool ends with that error, the
\* record set untouched by it; a Change that was accepted replaced exactly
\* the record fetched.
C16_UpdateRefetch ==
    \A p \in Procs :
        LET r == proc[p]
        IN r.tool = "update"
           => /\ r.submitted # <<>>
                   => /\ r.listed
                      /\ r.fetched # NoRecord
                      /\ r.fetched.name = r.input.name
                      /\ r.fetched.type = r.input.type
                      /\ "deletions" \in DOMAIN r.submitted[1]
                      /\ r.submitted[1].deletions = <<r.fetched>>
                      /\ Len(r.submitted) = 1
              /\ (r.listed /\ r.fetched = NoRecord)
                   => /\ r.pc = "done"
                      /\ r.result.isError
                      /\ r.result.error.kind = "NotFound"
                      /\ r.submitted = <<>>
                      /\ ~r.waited
                      /\ r.polls = 0
              /\ (r.posted /\ r.remoteAtPost # r.fetched)
                   => /\ r.pc = "done"
                      /\ r.result.isError
                      /\ r.result.error.kind = "ClientOp"
                      /\ r.result.error.op = "updateRecord"
                      /\ r.thrown.kind = "ApiError"
                      /\ r.thrown.status = 412
                      /\ r.returnedId = ""
                      /\ ~r.waited
              /\ r.returnedId # ""
                   => /\ r.posted
                      /\ r.remoteAtPost = r.fetched
              /\ (r.pc = "done" /\ ~r.result.isError)
                   => r.remoteAtPost = r.fetched

\* C16 witness: the record set changed between the listing and the post,
\* and the update ended with the rejection.
C16_Witness ==
    \E p \in Procs :
        /\ proc[p].tool = "update"
        /\ proc[p].posted
        /\ proc[p].fetched # NoRecord
        /\ proc[p].remoteAtPost # NoRecord
        /\ proc[p].remoteAtPost # proc[p].fetched
        /\ proc[p].pc = "done"
        /\ proc[p].result.isError
        /\ proc[p].thrown.kind = "ApiError"
        /\ proc[p].thrown.status = 412

\* C17: while an invocation is suspended (in the 2000 ms sleep of
\* waitForChange, or awaiting an answer), every other invocation can take
\* its next step: be called, have its exchange or its request answered,
\* have its timer fire.  A step of one invocation changes no local of
\* another; what it may change besides its own locals is the token cache.
C17_SleepDoesNotBlock ==
    /\ [](\A p, q \in Procs :
            (p # q /\ server = "ready"
             /\ proc[p].pc \in {"sleeping", "tok_wait", "api_wait"})
            => /\ proc[q].pc = "idle"
                    => ENABLED Invoke(q, ConcCalls(q))
               /\ proc[q].pc = "tok_wait"
                    => ENABLED TokenResponse(q, {0}, {3600}, {0})
               /\ proc[q].pc = "api_wait"
                    => ENABLED ApiResponse(q, {0}, {ServiceUnavailable})
               /\ proc[q].pc = "sleeping"
                    => ENABLED Wake(q, {0}))
    /\ [][\A p, q \in Procs :
            (p # q /\ proc'[p] # proc[p])
            => /\ proc'[q] = proc[q]
               /\ <<env, server, startupError, projectId>>'
                    = <<env, server, startupError, projectId>>]_vars

\* C17 witness: one invocation is in its sleep, and since that sleep began
\* the other has gone through an exchange and a poll and has returned.
C17_Witness ==
    \E p, q \in Procs :
        /\ p # q
        /\ proc[p].pc = "sleeping"
        /\ proc[q].pc = "done"
        /\ proc[q].waitEnd = "done"
        /\ proc[q].exchanges >= 1
        /\ proc[q].getStoredAt > proc[p].sleepStart
        /\ proc[q].endAt > proc[p].sleepStart

\* C18: an invocation does one thing at a time, in order.  Every API
\* request has a getAccessToken call of its own before it: the calls number
\* the requests sent, plus the one call that is still exchanging or that
\* failed.  A request is in flight only after its call returned a token (the
\* cached one, or the one its exchange issued) and carries that token; while
\* the exchange is in flight, and after the call failed, the request has not
\* been sent.  A poll is sent only after the post of the Change returned its
\* id, and the post of an update or a delete only after the listing
\* returned the record.
C18_SequentialChain ==
    \A p \in Procs :
        LET r == proc[p]
            open == IF r.getState \in {"exchanging", "configError", "rejected"}
                    THEN 1 ELSE 0
        IN /\ r.getCalls = r.apiReqs + open
           /\ r.exchanges <= r.getCalls
           /\ r.pc = "api_wait"
                => /\ r.getState \in {"hit", "stored"}
                   /\ r.token # NoToken
                   /\ r.getState = "hit" => r.token = r.getTokBefore
                   /\ r.getState = "stored" => r.token = Len(issued)
           /\ r.pc = "tok_wait"
                => /\ r.getState = "exchanging"
                   /\ r.apiReqs = r.getCalls - 1
           /\ r.getState \in {"configError", "rejected"}
                => /\ r.pc = "done"
                   /\ r.result.isError
                   /\ r.apiReqs = r.getCalls - 1
                   /\ IsSubmit(r.op) => r.submitted = <<>>
           /\ (r.polls >= 1 /\ r.tool \in MutatingTools)
                => /\ r.returnedId # ""
                   /\ r.changeId = r.returnedId
                   /\ Len(r.submitted) = 1
                   /\ r.apiReqs >= 1 + r.polls - open
           /\ (r.submitted # <<>> /\ r.tool \in {"update", "delete"})
                => /\ r.existing # NoRecord
                   /\ r.apiReqs >= 2

\* C18 witness: an update is in its second poll, having listed, posted and
\* polled once, each of the four requests after an exchange of its own.
C18_Witness ==
    \E p \in Procs :
        /\ proc[p].tool = "update"
        /\ proc[p].pc = "api_wait"
        /\ proc[p].op = "getChange"
        /\ proc[p].polls = 2
        /\ proc[p].getCalls = 4
        /\ proc[p].apiReqs = 4
        /\ proc[p].exchanges = 4

\* Token k reached the cache less than the safety margin after the endpoint
\* issued it.
C19_StoredInTime(k) == issued[k].storedAt - issued[k].at < SafetyMarginMs

\* The instant token k expires at the endpoint.
C19_TrueExpiry(k) == issued[k].at + issued[k].expires_in * MsPerSecond

\* C19: for a token cached less than 60 s after it was issued, the cached
\* expiry is never later than the token's expiry at the endpoint, whichever
\* exchange wrote the cache last; and a getAccessToken call served from the
\* cache returns such a token only before it expires at the endpoint.
C19_CachedExpirySafe ==
    /\ (accessToken # NoToken /\ C19_StoredInTime(accessToken))
         => tokenExpiry <= C19_TrueExpiry(accessToken)
    /\ \A p \in Procs :
         (proc[p].getState = "hit" /\ C19_StoredInTime(proc[p].token))
         => /\ proc[p].getAt < proc[p].getExpBefore
            /\ proc[p].getAt < C19_TrueExpiry(proc[p].token)

\* C19 witness: a token issued earlier than the one cached before it
\* overwrote that one, a second after it was issued, and a later poll was
\* served it from the cache.
C19_Witness ==
    \E p \in Procs :
        /\ proc[p].getState = "hit"
        /\ proc[p].token >= 2
        /\ issued[proc[p].token].at < issued[proc[p].token - 1].at
        /\ issued[proc[p].token].storedAt > issued[proc[p].token].at
        /\ C19_StoredInTime(proc[p].token)

\* C20: a getAccessToken call that fails (the credentials are missing or
\* are not JSON, the exchange is answered with a non-success status or is
\* not answered) leaves accessToken and tokenExpiry as they were; the two
\* change only in the step that ends a successful exchange, and then both
\* are written: the token that exchange issued and the expiry computed
\* from its answer.
C20_FailedRefreshKeepsCache ==
    [][/\ \A p \in Procs :
            (/\ proc'[p] # proc[p]
             /\ proc'[p].getState \in {"configError", "rejected"})
            => /\ accessToken' = accessToken
               /\ tokenExpiry' = tokenExpiry
       /\ (accessToken' # accessToken \/ tokenExpiry' # tokenExpiry)
            => \E p \in Procs :
                 /\ proc[p].pc = "tok_wait"
                 /\ proc'[p].getState = "stored"
                 /\ proc'[p].tokFails = proc[p].tokFails
                 /\ accessToken' # accessToken
                 /\ accessToken' = proc'[p].token
                 /\ tokenExpiry' = proc'[p].getStoredAt
                                     + proc'[p].getTtl * MsPerSecond - SafetyMarginMs]_vars

\* C20 witness: an exchange was rejected while a stale token was cached, and
\* the cache still holds that token and its expiry.
C20_Witness ==
    \E p \in Procs :
        /\ proc[p].getState = "rejected"
        /\ proc[p].tokFails = 1
        /\ proc[p].getTokBefore # NoToken
        /\ proc[p].getExpBefore # NoExpiry
        /\ accessToken = proc[p].getTokBefore
        /\ tokenExpiry = proc[p].getExpBefore

\* C21: a waitForChange called with a timeout above 0 calls getChange at
\* least once.  When such a wait fails by its timeout, every poll it sent
\* was answered with a status other than "done", the last of them was
\* followed by a sleep of at least 2000 ms, and the failure comes straight
\* out of that sleep: the step that ends a sleep at timeoutMs or more since
\* the start sends no exchange, no request and no poll, whatever the Change
\* has become meanwhile, and ends the wait with the timeout error.
C21_TimeoutAfterSleep ==
    /\ [](\A p \in Procs :
            LET r == proc[p]
            IN (r.waited /\ r.timeout > 0)
               => /\ r.polls >= 1
                  /\ r.waitEnd = "timeout"
                       => /\ Len(r.observed) = r.polls
                          /\ \A i \in 1..Len(r.observed) : r.observed[i] # "done"
                          /\ r.sleepStart >= r.pollAt
                          /\ r.endAt >= r.sleepStart + PollIntervalMs
                          /\ r.pollAt - r.startTime < r.timeout
                          /\ r.endAt - r.startTime >= r.timeout)
    /\ [][\A p \in Procs :
            (/\ proc[p].pc = "sleeping"
             /\ proc'[p] # proc[p]
             /\ now' - proc[p].startTime >= proc[p].timeout)
            => /\ proc'[p].pc = "done"
               /\ proc'[p].waitEnd = "timeout"
               /\ proc'[p].result.isError
               /\ proc'[p].result.error.kind = "ChangeTimeout"
               /\ proc'[p].polls = proc[p].polls
               /\ proc'[p].apiReqs = proc[p].apiReqs
               /\ proc'[p].exchanges = proc[p].exchanges
               /\ proc'[p].getCalls = proc[p].getCalls
               /\ proc'[p].observed = proc[p].observed]_vars

\* C21 witness: a wait with a timeout of 3000 ms polled once, was answered
\* "pending" long after, slept, and failed by its timeout without a second
\* poll.
C21_Witness ==
    \E p \in Procs :
        /\ proc[p].waited
        /\ proc[p].timeout = PollIntervalMs + FastMs
        /\ proc[p].waitEnd = "timeout"
        /\ proc[p].polls = 1
        /\ proc[p].observed = <<"pending">>
        /\ proc[p].sleepStart - proc[p].startTime >= SlowMs
        /\ proc[p].endAt >= proc[p].sleepStart + PollIntervalMs

====
